---- MODULE Spec2Model ----
(***************************************************************************)
(* Rent recovery tool (sol_tool): the batch wallet manager                 *)
(* (scanAllWallets / recoverAllWallets, in its batched and its             *)
(* single-transaction variant), the account closer (checkAccountStatus /   *)
(* handleCloseAccount) and the rent analysis (handleAnalyze /              *)
(* getMultipleAccountsRentInfo).  Every await on the ledger or on the      *)
(* wallet is a step that returns or throws.                                *)
(***************************************************************************)
EXTENDS Integers, Sequences, FiniteSets, TLC

VARIABLES
    \* ---- the ledger and the user's keys (environment) ----
    chain,              \* per private key: the wallet's balance and its token accounts
    \* ---- BatchWalletManager (React state) ----
    variant,            \* which BatchWalletManager file is deployed: "batched" | "single"
    walletInfo,         \* connected wallet address, or NoWallet
    walletConnected,    \* window.okxwallet.solana.isConnected, read by the wallet adapter
    currentPage,        \* App's page: "tools" (WalletConnection, RentRecovery, AccountCloser)
                        \* or "batch" (BatchWalletManager); only its components are mounted
    privateKeys,        \* number of non-empty lines of the private key text box
    walletDataList,     \* Seq of WalletData
    isScanning,
    isRecovering,
    error,
    success,
    recoveryResult,     \* NoResult or [success, failed, totalSol, totalRent]
    \* ---- scanAllWallets run (locals of the async call) ----
    scanN,              \* privateKeyList.length of the running scan
    scanI,              \* wallets already scanned by the running scan
    scanList,           \* the local walletDataList of the running scan
    scanLog,            \* console.error of the last scan: the indexes of the wallets that failed
    freshScan,          \* history: walletDataList was scanned after the last recovery run ended
    \* ---- recoverAllWallets run (locals of the async call) ----
    rPc,                \* "idle" | "payer" | "blockhash" | "sign" | "send" | "confirm" | "done"
    runList,            \* walletDataList captured by the handler's closure
    payerBalance,
    allInstructions,
    batches,
    batchIndex,         \* 1-based index of the batch being processed (0: none)
    totalSolRecovered,
    totalRentRecovered,
    successCount,
    failedCount,
    feePayer,           \* transaction.feePayer of the transaction being processed, or NoWallet
    \* ---- the signer and the ledger, as the run sees them ----
    signed,             \* transactions handed to walletAdapter.signTransaction, in order
    inFlight,           \* batch indexes broadcast whose confirmation wait has not ended
    outcome,            \* per batch index of the run: "confirmed" | "failed"
    detachedRun,        \* a recoverAllWallets run of a BatchWalletManager that has been
                        \* unmounted since is still between its start and its end
    \* ---- AccountCloser (React state) ----
    accountToClose,     \* the address text box: "" | "invalid" | "acct"
    destination,        \* the destination text box: "" | "invalid" | "dest"
    account,            \* the ledger's account at accountToClose, or NoAccount
    accountStatus,      \* NoStatus or [canClose, reason], set by checkAccountStatus
    isProcessing,
    cError,
    cSuccess,
    transactionResult,  \* Null | "success" | "failure"
    \* ---- handleCloseAccount run ----
    cPc,                \* "idle" | "precheck" | "info" | "rent" | "blockhash" | "sign" | "send" | "confirm" | "done"
    rentInfo,           \* NoRentInfo or the RentInfo canCloseAccount returned to the run
    transaction,        \* the instructions added to the run's transaction
    cSigned,            \* transactions handed to walletAdapter.signTransaction
    cSent,              \* transactions broadcast by sendRawTransaction
    \* ---- RentRecovery (React state) ----
    addresses,          \* the address lines: per line "invalid", NoAccount or the ledger's account
    rentInfoList,       \* the rentInfo state: Seq of RentInfo rows
    isLoading,
    aError,
    aSuccess,
    aPc,                \* handleAnalyze: "idle" | "fetch" | "done"
    \* ---- SolanaUtils.getAccountTypeInfo ----
    typeAccount,        \* the call's accountInfo (executable, dataLength) and what its own
                        \* getAccountInfo gives: "data" | "null" | "throws"
    typeInfo,           \* NoTypeInfo or the [type, dataSize] the call returned
    \* ---- AccountCloser: the zero balance token accounts of the connected wallet ----
    walletTokens,       \* the ledger: [tokenCount, nonZero] of the connected wallet
    zeroBalanceAccounts,
    isBatchLoading,
    batchResult,        \* NoBatchResult or [success, failed, total]
    fPc,                \* findZeroBalanceTokenAccounts: "idle" | "fetch"
    \* ---- batchCloseZeroBalanceAccounts run ----
    zPc,                \* "idle" | "blockhash" | "sign" | "send" | "confirm" | "done"
    zList,              \* zeroBalanceAccounts captured by the handler's closure
    zWallet,            \* walletInfo captured by the handler's closure
    zIndex,             \* 1-based index of the account being closed (0: none)
    zSuccessCount,
    zFailedCount,
    zSigned,            \* transactions handed to walletAdapter.signTransaction
    zSent,              \* transactions broadcast by sendRawTransaction
    zOutcome            \* per account whose turn has ended: "confirmed" | "failed"

walletVars == <<walletInfo, walletConnected, currentPage>>

bvars == <<chain, variant, walletVars, privateKeys, walletDataList,
           isScanning, isRecovering, error, success, recoveryResult, scanN, scanI, scanList,
           scanLog, freshScan, rPc, runList,
           payerBalance, allInstructions, batches, batchIndex, totalSolRecovered,
           totalRentRecovered, successCount, failedCount, feePayer, signed, inFlight,
           outcome, detachedRun>>

cvars == <<accountToClose, destination, account, accountStatus, isProcessing, cError,
           cSuccess, transactionResult, cPc, rentInfo, transaction, cSigned, cSent>>

avars == <<addresses, rentInfoList, isLoading, aError, aSuccess, aPc>>

tvars == <<typeAccount, typeInfo>>

zvars == <<walletTokens, zeroBalanceAccounts, isBatchLoading, batchResult, fPc, zPc, zList,
           zWallet, zIndex, zSuccessCount, zFailedCount, zSigned, zSent, zOutcome>>

vars == <<bvars, cvars, avars, tvars, zvars>>

----------------------------------------------------------------------------
\* Bounds of the model
MaxWallets == 2

\* Program constants
maxInstructionsPerTransaction == 20
estimatedFeePerTransaction == 5000
safetyBuffer == 10000
SolReserve == 5000

NoWallet == "none"
Payer == "payer"
NoResult == [none |-> TRUE]
Null == "null"

\* Inputs the ledger may answer with
SolBalances == {SolReserve, SolReserve + 1}
TokenCounts == {0, maxInstructionsPerTransaction}
PayerBalances == {14999, 15000, 45000}

\* connection.getMinimumBalanceForRentExemption(dataLength), as the ledger computes it
getMinimumBalanceForRentExemption(dataLength) == (128 + dataLength) * 6960

----------------------------------------------------------------------------
\* Pure helpers

Min(a, b) == IF a < b THEN a ELSE b
Max(a, b) == IF a > b THEN a ELSE b

RECURSIVE SumSeq(_)
SumSeq(s) == IF s = <<>> THEN 0 ELSE Head(s) + SumSeq(Tail(s))

RECURSIVE Concat(_)
Concat(ss) == IF ss = <<>> THEN <<>> ELSE Head(ss) \o Concat(Tail(ss))

\* a slice that takes the element at index end as well
SliceInclusive(s, start, end) ==
    LET e == Min(end + 1, Len(s))
    IN  IF start >= e THEN <<>> ELSE [k \in 1..(e - start) |-> s[start + k]]

\* Array.prototype.slice(start, end) on 0-based indexes, end exclusive, clamped
Slice(s, start, end) ==
    LET e == Min(end, Len(s))
    IN  IF start >= e THEN <<>> ELSE [k \in 1..(e - start) |-> s[start + k]]

\* getTokenAccountsByOwner(wallet): n token accounts of 165 bytes, each holding
\* its rent-exemption minimum, the first one holding tokens when nonZero
TokenAccounts(k, n, nonZero) ==
    [j \in 1..n |-> [pubkey |-> <<k, j>>,
                     tokenAmount |-> IF nonZero /\ j = 1 THEN 1 ELSE 0,
                     lamports |-> getMinimumBalanceForRentExemption(165)]]

\* every token account of the wallet, whatever its token amount
AllTokens(accts) ==
    [i \in 1..Len(accts) |-> [address |-> accts[i].pubkey, rentAmount |-> accts[i].lamports]]

\* scanWallet: the zero balance token accounts of the wallet, in scan order
RECURSIVE ZeroBalanceTokens(_)
ZeroBalanceTokens(accts) ==
    IF accts = <<>> THEN <<>>
    ELSE (IF Head(accts).tokenAmount = 0
          THEN <<[address |-> Head(accts).pubkey, rentAmount |-> Head(accts).lamports]>>
          ELSE <<>>) \o ZeroBalanceTokens(Tail(accts))

\* scanWallet's result
ScanWalletData(k, solBalance, accts) ==
    LET z == ZeroBalanceTokens(accts)
    IN  [publicKey |-> k,
         solBalance |-> solBalance,
         zeroBalanceTokens |-> z,
         totalRent |-> SumSeq([i \in 1..Len(z) |-> z[i].rentAmount])]

\* the instructions of one wallet with the token account closes ahead of the transfer
WalletInstructionsClosesFirst(w, payer) ==
    [i \in 1..Len(w.zeroBalanceTokens) |->
            [type |-> "closeToken", account |-> w.zeroBalanceTokens[i].address,
             to |-> payer, owner |-> w.publicKey,
             amount |-> w.zeroBalanceTokens[i].rentAmount]]
    \o (IF w.solBalance > SolReserve
        THEN <<[type |-> "transfer", account |-> w.publicKey, to |-> payer,
                owner |-> w.publicKey, amount |-> w.solBalance - SolReserve]>>
        ELSE <<>>)

\* the instructions of one wallet when a balance of exactly the reserve is transferred too
WalletInstructionsNoReserve(w, payer) ==
    (IF w.solBalance >= SolReserve
     THEN <<[type |-> "transfer", account |-> w.publicKey, to |-> payer,
             owner |-> w.publicKey, amount |-> w.solBalance - SolReserve]>>
     ELSE <<>>)
    \o [i \in 1..Len(w.zeroBalanceTokens) |->
            [type |-> "closeToken", account |-> w.zeroBalanceTokens[i].address,
             to |-> payer, owner |-> w.publicKey,
             amount |-> w.zeroBalanceTokens[i].rentAmount]]

\* recoverAllWallets: the instructions of one wallet
WalletInstructions(w, payer) ==
    (IF w.solBalance > SolReserve
     THEN <<[type |-> "transfer", account |-> w.publicKey, to |-> payer,
             owner |-> w.publicKey, amount |-> w.solBalance - SolReserve]>>
     ELSE <<>>)
    \o [i \in 1..Len(w.zeroBalanceTokens) |->
            [type |-> "closeToken", account |-> w.zeroBalanceTokens[i].address,
             to |-> payer, owner |-> w.publicKey,
             amount |-> w.zeroBalanceTokens[i].rentAmount]]

\* recoverAllWallets: allInstructions
RECURSIVE CollectInstructions(_, _)
CollectInstructions(list, payer) ==
    IF list = <<>> THEN <<>>
    ELSE WalletInstructions(Head(list), payer) \o CollectInstructions(Tail(list), payer)

\* recoverAllWallets: for (i = 0; i < all.length; i += max) batches.push(all.slice(i, i + max))
RECURSIVE BatchesFrom(_, _, _)
BatchesFrom(all, i, max) ==
    IF i >= Len(all) THEN <<>>
    ELSE <<Slice(all, i, i + max)>> \o BatchesFrom(all, i + max, max)

BuildBatches(all) == BatchesFrom(all, 0, maxInstructionsPerTransaction)

\* the single-transaction variant adds every instruction to one transaction
SingleTransaction(all) == <<all>>

SolOf(batch) ==
    SumSeq([i \in 1..Len(batch) |->
              IF batch[i].type = "transfer" THEN batch[i].amount ELSE 0])
RentOf(batch) ==
    SumSeq([i \in 1..Len(batch) |->
              IF batch[i].type = "closeToken" THEN batch[i].amount ELSE 0])

----------------------------------------------------------------------------
\* The environment: what each private key of the text box leads to

KeyData == [solBalance : SolBalances, tokenCount : TokenCounts, nonZero : {FALSE}]
           \cup [solBalance : {SolReserve + 1}, tokenCount : TokenCounts \ {0},
                 nonZero : {TRUE}]

Chains == UNION {[1..n -> KeyData] : n \in 1..MaxWallets}

\* the wallet: App's walletInfo and the extension's own connection flag, which
\* App learns of only through WalletConnection
WalletInit ==
    /\ walletInfo \in {NoWallet, Payer}
    /\ walletConnected \in (IF walletInfo = NoWallet THEN {FALSE} ELSE BOOLEAN)

\* BatchWalletManager after construction
BMounted ==
    /\ privateKeys = 0
    /\ walletDataList = <<>>
    /\ isScanning = FALSE
    /\ isRecovering = FALSE
    /\ error = Null
    /\ success = Null
    /\ recoveryResult = NoResult
    /\ scanN = 0 /\ scanI = 0 /\ scanList = <<>>
    /\ scanLog = {}
    /\ freshScan = FALSE
    /\ rPc = "idle"
    /\ runList = <<>>
    /\ payerBalance = 0
    /\ allInstructions = <<>>
    /\ batches = <<>>
    /\ batchIndex = 0
    /\ totalSolRecovered = 0
    /\ totalRentRecovered = 0
    /\ successCount = 0
    /\ failedCount = 0
    /\ feePayer = NoWallet
    /\ signed = <<>>
    /\ inFlight = {}
    /\ outcome = <<>>

BInit ==
    /\ chain \in Chains
    /\ variant \in {"batched", "single"}
    /\ WalletInit
    /\ detachedRun = FALSE
    /\ BMounted

scanUnch == <<scanN, scanI, scanList, scanLog>>
runUnch == <<rPc, runList, payerBalance, allInstructions, batches, batchIndex,
             totalSolRecovered, totalRentRecovered, successCount, failedCount,
             feePayer, signed, inFlight, outcome>>
envUnch == <<chain, variant, walletVars, detachedRun, cvars, avars, tvars, zvars>>

\* the user types the private keys into the text box
SetPrivateKeys ==
    /\ privateKeys = 0
    /\ privateKeys' = Len(chain)
    /\ UNCHANGED <<envUnch, walletDataList, isScanning, isRecovering, error, success,
                   recoveryResult, scanUnch, freshScan, runUnch>>

\* a scan that starts by asking the wallet for a signature
ScanStartSigning ==
    /\ ~isScanning /\ privateKeys > 0
    /\ isScanning' = TRUE
    /\ error' = Null
    /\ success' = Null
    /\ walletDataList' = <<>>
    /\ scanN' = privateKeys
    /\ scanI' = 0
    /\ scanList' = <<>>
    /\ scanLog' = {}
    /\ freshScan' = FALSE
    /\ signed' = Append(signed, <<>>)
    /\ UNCHANGED <<envUnch, privateKeys, isRecovering, recoveryResult, rPc, runList,
                   payerBalance, allInstructions, batches, batchIndex, totalSolRecovered,
                   totalRentRecovered, successCount, failedCount, feePayer, inFlight,
                   outcome>>

\* scanAllWallets, up to its first await
ScanStart ==
    /\ ~isScanning /\ privateKeys > 0
    /\ isScanning' = TRUE
    /\ error' = Null
    /\ success' = Null
    /\ walletDataList' = <<>>
    /\ scanN' = privateKeys
    /\ scanI' = 0
    /\ scanList' = <<>>
    /\ scanLog' = {}
    /\ freshScan' = FALSE
    /\ UNCHANGED <<envUnch, privateKeys, isRecovering, recoveryResult, runUnch>>

\* a scan that a failing wallet ends: the wallets scanned so far are the result
ScanWalletFatal(throws) ==
    /\ isScanning /\ scanI < scanN
    /\ LET k == scanI + 1
           d == chain[k]
           list == IF throws THEN scanList
                   ELSE Append(scanList,
                               ScanWalletData(k, d.solBalance,
                                              TokenAccounts(k, d.tokenCount, d.nonZero)))
       IN  /\ scanLog' = IF throws THEN scanLog \cup {k} ELSE scanLog
           /\ IF k < scanN /\ ~throws
              THEN /\ scanI' = k
                   /\ scanList' = list
                   /\ UNCHANGED <<walletDataList, success, isScanning, scanN, freshScan>>
              ELSE /\ walletDataList' = list
                   /\ success' = "scanned"
                   /\ isScanning' = FALSE
                   /\ freshScan' = TRUE
                   /\ scanN' = 0 /\ scanI' = 0 /\ scanList' = <<>>
    /\ UNCHANGED <<envUnch, privateKeys, isRecovering, error, recoveryResult, runUnch>>

\* scanAllWallets: one turn of the loop (await scanWallet, which returns the
\* wallet's data or throws: undecodable key, failed account fetch), and the end
\* of the run after the last turn
ScanWallet(throws) ==
    /\ isScanning /\ scanI < scanN
    /\ LET k == scanI + 1
           d == chain[k]
           ok == ~throws
           list == IF ok
                   THEN Append(scanList,
                               ScanWalletData(k, d.solBalance,
                                              TokenAccounts(k, d.tokenCount, d.nonZero)))
                   ELSE scanList
       IN  /\ scanLog' = IF ok THEN scanLog ELSE scanLog \cup {k}
           /\ IF k < scanN
              THEN /\ scanI' = k
                   /\ scanList' = list
                   /\ UNCHANGED <<walletDataList, success, isScanning, scanN, freshScan>>
              ELSE /\ walletDataList' = list
                   /\ success' = "scanned"
                   /\ isScanning' = FALSE
                   /\ freshScan' = TRUE
                   /\ scanN' = 0 /\ scanI' = 0 /\ scanList' = <<>>
    /\ UNCHANGED <<envUnch, privateKeys, isRecovering, error, recoveryResult, runUnch>>

\* clearData
ClearData ==
    /\ ~isScanning /\ ~isRecovering
    /\ privateKeys' = 0
    /\ walletDataList' = <<>>
    /\ error' = Null
    /\ success' = Null
    /\ recoveryResult' = NoResult
    /\ freshScan' = FALSE
    /\ UNCHANGED <<envUnch, isScanning, isRecovering, scanUnch, runUnch>>

----------------------------------------------------------------------------
\* recoverAllWallets

stateUnch == <<privateKeys, walletDataList, isScanning, scanUnch>>

\* a catch block with no finally: the busy flag stays set
RecoverThrowKeepsFlag ==
    /\ rPc \in {"payer", "blockhash", "sign", "send", "confirm"}
    /\ error' = "recoverFailed"
    /\ rPc' = "done"
    /\ signed' = IF rPc = "sign" THEN Append(signed, batches[batchIndex]) ELSE signed
    /\ inFlight' = inFlight \ {batchIndex}
    /\ outcome' = IF batchIndex > 0 THEN Append(outcome, "failed") ELSE outcome
    /\ freshScan' = FALSE
    /\ UNCHANGED <<envUnch, stateUnch, success, recoveryResult, isRecovering, runList,
                   payerBalance, allInstructions, batches, batchIndex, totalSolRecovered,
                   totalRentRecovered, successCount, failedCount, feePayer>>

\* the catch and finally blocks: any await of the run throws
RecoverThrow ==
    /\ rPc \in {"payer", "blockhash", "sign", "send", "confirm"}
    /\ error' = "recoverFailed"
    /\ isRecovering' = FALSE
    /\ rPc' = "done"
    /\ signed' = IF rPc = "sign" THEN Append(signed, batches[batchIndex]) ELSE signed
    /\ inFlight' = inFlight \ {batchIndex}
    /\ outcome' = IF batchIndex > 0 THEN Append(outcome, "failed") ELSE outcome
    /\ freshScan' = FALSE
    /\ UNCHANGED <<envUnch, stateUnch, success, recoveryResult, runList, payerBalance,
                   allInstructions, batches, batchIndex, totalSolRecovered,
                   totalRentRecovered, successCount, failedCount, feePayer>>

\* batched variant: the click, up to the await of the payer's account
RecoverStart ==
    /\ variant = "batched"
    /\ ~isRecovering /\ Len(walletDataList) > 0 /\ walletInfo # NoWallet
    /\ isRecovering' = TRUE
    /\ error' = Null
    /\ success' = Null
    /\ recoveryResult' = NoResult
    /\ rPc' = "payer"
    /\ runList' = walletDataList
    /\ payerBalance' = 0
    /\ allInstructions' = <<>>
    /\ batches' = <<>>
    /\ batchIndex' = 0
    /\ totalSolRecovered' = 0
    /\ totalRentRecovered' = 0
    /\ successCount' = 0
    /\ failedCount' = 0
    /\ feePayer' = NoWallet
    /\ signed' = <<>>
    /\ inFlight' = {}
    /\ outcome' = <<>>
    /\ UNCHANGED <<envUnch, stateUnch, freshScan>>

\* batched variant: the payer's balance arrives; instructions are collected and
\* batched, the fee is checked and the first batch is entered
RecoverPayer(balance) ==
    /\ rPc = "payer"
    /\ LET all == CollectInstructions(runList, walletInfo)
           bs == BuildBatches(all)
           totalRequiredFee == (estimatedFeePerTransaction + safetyBuffer) * Len(bs)
           res == IF Len(all) = 0 THEN "noAssets"
                  ELSE IF balance < totalRequiredFee THEN "insufficientPayer"
                  ELSE "go"
       IN  /\ payerBalance' = balance
           /\ allInstructions' = all
           /\ successCount' = Len(runList)
           /\ failedCount' = 0
           /\ batches' = IF res = "noAssets" THEN <<>> ELSE bs
           /\ error' = IF res = "go" THEN error ELSE res
           /\ isRecovering' = (res = "go")
           /\ rPc' = IF res = "go" THEN "blockhash" ELSE "done"
           /\ batchIndex' = IF res = "go" THEN 1 ELSE 0
           /\ totalSolRecovered' = IF res = "go" THEN SolOf(bs[1]) ELSE 0
           /\ totalRentRecovered' = IF res = "go" THEN RentOf(bs[1]) ELSE 0
           /\ freshScan' = (res = "go" /\ freshScan)
    /\ UNCHANGED <<envUnch, stateUnch, success, recoveryResult, runList, feePayer, signed,
                   inFlight, outcome>>

\* single-transaction variant: the click; every instruction goes into one transaction
RecoverStartSingle ==
    /\ variant = "single"
    /\ ~isRecovering /\ Len(walletDataList) > 0 /\ walletInfo # NoWallet
    /\ LET all == CollectInstructions(walletDataList, walletInfo)
           go == Len(all) > 0
       IN  /\ runList' = walletDataList
           /\ allInstructions' = all
           /\ successCount' = Len(walletDataList)
           /\ failedCount' = 0
           /\ batches' = IF go THEN SingleTransaction(all) ELSE <<>>
           /\ error' = IF go THEN Null ELSE "noAssets"
           /\ isRecovering' = go
           /\ rPc' = IF go THEN "blockhash" ELSE "done"
           /\ batchIndex' = IF go THEN 1 ELSE 0
           /\ totalSolRecovered' = SolOf(all)
           /\ totalRentRecovered' = RentOf(all)
           /\ freshScan' = (go /\ freshScan)
    /\ success' = Null
    /\ recoveryResult' = NoResult
    /\ payerBalance' = 0
    /\ feePayer' = NoWallet
    /\ signed' = <<>>
    /\ inFlight' = {}
    /\ outcome' = <<>>
    /\ UNCHANGED <<envUnch, stateUnch>>

runStepUnch == <<envUnch, stateUnch, freshScan, error, success, recoveryResult, isRecovering, runList,
                 payerBalance, allInstructions, batches, batchIndex, totalSolRecovered,
                 totalRentRecovered, successCount, failedCount>>

\* a blockhash step that leaves the transaction without a fee payer
RecoverBlockhashNoFeePayer ==
    /\ rPc = "blockhash"
    /\ feePayer' = NoWallet
    /\ rPc' = "sign"
    /\ UNCHANGED <<runStepUnch, signed, inFlight, outcome>>

\* getLatestBlockhash returns; the fee payer is set
RecoverBlockhash ==
    /\ rPc = "blockhash"
    /\ feePayer' = walletInfo
    /\ rPc' = "sign"
    /\ UNCHANGED <<runStepUnch, signed, inFlight, outcome>>

\* walletAdapter.signTransaction returns the signed transaction (it throws when
\* the extension is not connected)
RecoverSign ==
    /\ rPc = "sign"
    /\ walletConnected
    /\ signed' = Append(signed, batches[batchIndex])
    /\ rPc' = "send"
    /\ UNCHANGED <<runStepUnch, feePayer, inFlight, outcome>>

\* a send whose confirmation is not awaited: the loop goes on to the next batch
RecoverSendNoAwait ==
    /\ rPc = "send"
    /\ inFlight' = inFlight \cup {batchIndex}
    /\ rPc' = IF batchIndex < Len(batches) THEN "blockhash" ELSE "confirm"
    /\ batchIndex' = IF batchIndex < Len(batches) THEN batchIndex + 1 ELSE batchIndex
    /\ UNCHANGED <<envUnch, stateUnch, freshScan, error, success, recoveryResult, isRecovering,
                   runList, payerBalance, allInstructions, batches, totalSolRecovered,
                   totalRentRecovered, successCount, failedCount, feePayer, signed,
                   outcome>>

\* sendRawTransaction returns the signature; the run awaits confirmTransaction
RecoverSend ==
    /\ rPc = "send"
    /\ inFlight' = inFlight \cup {batchIndex}
    /\ rPc' = "confirm"
    /\ UNCHANGED <<runStepUnch, feePayer, signed, outcome>>

\* confirmTransaction returns: the next batch is entered, or the run ends
\* with its report
RecoverConfirm ==
    /\ rPc = "confirm"
    /\ outcome' = Append(outcome, "confirmed")
    /\ inFlight' = inFlight \ {batchIndex}
    /\ IF batchIndex < Len(batches)
       THEN /\ batchIndex' = batchIndex + 1
            /\ totalSolRecovered' = totalSolRecovered + SolOf(batches[batchIndex + 1])
            /\ totalRentRecovered' = totalRentRecovered + RentOf(batches[batchIndex + 1])
            /\ feePayer' = NoWallet
            /\ rPc' = "blockhash"
            /\ UNCHANGED <<recoveryResult, success, isRecovering, freshScan>>
       ELSE /\ recoveryResult' = [success |-> successCount, failed |-> failedCount,
                                  totalSol |-> totalSolRecovered,
                                  totalRent |-> totalRentRecovered]
            /\ success' = "recovered"
            /\ isRecovering' = FALSE
            /\ freshScan' = FALSE
            /\ rPc' = "done"
            /\ UNCHANGED <<batchIndex, totalSolRecovered, totalRentRecovered, feePayer>>
    /\ UNCHANGED <<envUnch, stateUnch, error, runList, payerBalance, allInstructions,
                   batches, successCount, failedCount, signed>>

----------------------------------------------------------------------------
\* AccountCloser: checkAccountStatus and handleCloseAccount

NoAccount == [exists |-> FALSE]
NoStatus == [canClose |-> FALSE, reason |-> Null]
NoRentInfo == [none |-> TRUE]
Owners == {"System", "Token", "BPFLoader", "Other"}
DataLengths == {0, 165}
CloserLamports == {0, 5000, 9999, 10000, 15000, 890879, 890880, 890881,
                   2039279, 2039280, 2039281, 100000000}

\* system accounts hold no data, token accounts hold 165 bytes
Accounts == [exists : {TRUE}, lamports : CloserLamports, owner : {"System"},
             executable : {FALSE}, dataLength : {0}]
            \cup [exists : {TRUE}, lamports : CloserLamports, owner : {"Token"},
                  executable : {FALSE}, dataLength : {165}]
            \cup [exists : {TRUE}, lamports : CloserLamports,
                  owner : {"BPFLoader", "Other"}, executable : BOOLEAN,
                  dataLength : DataLengths]

statusMinRequiredBalance == 5000
precheckMinBalance == 10000
minRequiredBalance == 15000
estimatedFee == 5000
closeSafetyBuffer == 0

\* SolanaUtils.canCloseAccount (calculateRent reads the account's data length)
canCloseAccount(accountInfo) ==
    LET rentExemptAmount == getMinimumBalanceForRentExemption(accountInfo.dataLength)
        canClose == accountInfo.lamports > rentExemptAmount
    IN  [rentAmount |-> rentExemptAmount,
         canClose |-> canClose,
         closeAmount |-> IF canClose THEN accountInfo.lamports - rentExemptAmount ELSE 0]

\* checkAccountStatus: the canClose it reports for an account it could read
StatusCanClose(accountInfo) ==
    LET info == canCloseAccount(accountInfo)
        totalRequired == Max(info.rentAmount, statusMinRequiredBalance)
    IN  accountInfo.lamports >= totalRequired

\* handleCloseAccount: transferAmount
TransferAmount(accountInfo) ==
    Max(0, accountInfo.lamports - (estimatedFee + closeSafetyBuffer))

\* handleCloseAccount, steps 2 to 4: the error it throws, or "build"
CloseEvaluation(accountInfo) ==
    LET info == canCloseAccount(accountInfo)
        totalRequired == Max(info.rentAmount, minRequiredBalance)
    IN  IF ~info.canClose THEN "cannotClose"
        ELSE IF accountInfo.lamports < totalRequired THEN "insufficient"
        ELSE IF TransferAmount(accountInfo) <= 0 THEN "feeShort"
        ELSE "build"

\* handleCloseAccount: the instruction chosen by the account's owner
CloseInstruction(accountInfo, dest) ==
    IF accountInfo.owner = "Token"
    THEN [type |-> "closeToken", account |-> "acct", to |-> dest, owner |-> "acct",
          amount |-> 0]
    ELSE IF accountInfo.owner = "BPFLoader"
    THEN [type |-> "closeProgram", account |-> "acct", to |-> dest, owner |-> "acct",
          amount |-> 0]
    ELSE [type |-> "transfer", account |-> "acct", to |-> dest, owner |-> "acct",
          amount |-> TransferAmount(accountInfo)]

\* AccountCloser after construction
CMounted ==
    /\ accountStatus = NoStatus
    /\ isProcessing = FALSE
    /\ cError = Null
    /\ cSuccess = Null
    /\ transactionResult = Null
    /\ cPc = "idle"
    /\ rentInfo = NoRentInfo
    /\ transaction = <<>>
    /\ cSigned = <<>>
    /\ cSent = <<>>

CInit ==
    /\ accountToClose \in {"", "invalid", "acct"}
    /\ destination \in {"", "invalid", "dest"}
    /\ account \in Accounts \cup {NoAccount}
    /\ CMounted

\* checkAccountStatus, run by the effect on accountToClose
CheckAccountStatus(throws) ==
    /\ accountToClose = "acct"
    /\ accountStatus = NoStatus
    /\ accountStatus' =
          IF throws THEN [canClose |-> FALSE, reason |-> "checkFailed"]
          ELSE IF ~account.exists THEN [canClose |-> FALSE, reason |-> "notExists"]
          ELSE IF StatusCanClose(account) THEN [canClose |-> TRUE, reason |-> "canClose"]
          ELSE [canClose |-> FALSE, reason |-> "insufficient"]
    /\ UNCHANGED <<bvars, avars, tvars, zvars, accountToClose, destination, account,
                   isProcessing, cError, cSuccess, transactionResult, cPc, rentInfo,
                   transaction, cSigned, cSent>>

closeInputs == <<bvars, avars, tvars, zvars, accountToClose, destination, account,
                 accountStatus>>

\* handleCloseAccount: the click, its input checks, up to the pre-check's await
CloseClick ==
    /\ ~isProcessing /\ walletInfo # NoWallet
    /\ accountStatus = NoStatus \/ accountStatus.canClose
    /\ cPc \in {"idle", "done"}
    /\ LET rejected == IF accountToClose = "" THEN "noAccount"
                       ELSE IF destination = "" THEN "noDestination"
                       ELSE IF accountToClose = "invalid" THEN "invalidAccount"
                       ELSE IF destination = "invalid" THEN "invalidDestination"
                       ELSE Null
       IN  /\ cError' = IF rejected = Null THEN cError ELSE rejected
           /\ cPc' = IF rejected = Null THEN "precheck" ELSE "done"
    /\ rentInfo' = NoRentInfo
    /\ transaction' = <<>>
    /\ cSigned' = <<>>
    /\ cSent' = <<>>
    /\ UNCHANGED <<closeInputs, isProcessing, cSuccess, transactionResult>>

\* handleCloseAccount: the pre-check's account fetch returns or throws
ClosePrecheck(throws) ==
    /\ cPc = "precheck"
    /\ LET rejected == IF throws THEN "precheckFailed"
                       ELSE IF ~account.exists THEN "notExists"
                       ELSE IF account.lamports < precheckMinBalance THEN "tooLittle"
                       ELSE Null
       IN  /\ cError' = rejected
           /\ cPc' = IF rejected = Null THEN "info" ELSE "done"
           /\ isProcessing' = IF rejected = Null THEN TRUE ELSE isProcessing
           /\ cSuccess' = IF rejected = Null THEN Null ELSE cSuccess
           /\ transactionResult' = IF rejected = Null THEN Null ELSE transactionResult
    /\ UNCHANGED <<closeInputs, rentInfo, transaction, cSigned, cSent>>

\* handleCloseAccount: the catch and finally blocks, any await of the try throws
CloseThrow ==
    /\ cPc \in {"info", "rent", "blockhash", "sign", "send", "confirm"}
    /\ cError' = "closeFailed"
    /\ transactionResult' = "failure"
    /\ isProcessing' = FALSE
    /\ cPc' = "done"
    /\ cSigned' = IF cPc = "sign" THEN Append(cSigned, transaction) ELSE cSigned
    /\ UNCHANGED <<closeInputs, cSuccess, rentInfo, transaction, cSent>>

\* handleCloseAccount, step 1: the account is fetched again
CloseInfo ==
    /\ cPc = "info"
    /\ cPc' = "rent"
    /\ UNCHANGED <<closeInputs, isProcessing, cError, cSuccess, transactionResult,
                   rentInfo, transaction, cSigned, cSent>>

\* handleCloseAccount, steps 2 to 4: canCloseAccount returns, the checks run
\* and the transaction is built
CloseEvaluate ==
    /\ cPc = "rent"
    /\ rentInfo' = canCloseAccount(account)
    /\ LET ev == CloseEvaluation(account)
       IN  IF ev = "build"
           THEN /\ transaction' = <<CloseInstruction(account, destination)>>
                /\ cPc' = "blockhash"
                /\ UNCHANGED <<cError, transactionResult, isProcessing>>
           ELSE /\ cError' = ev
                /\ transactionResult' = "failure"
                /\ isProcessing' = FALSE
                /\ cPc' = "done"
                /\ UNCHANGED transaction
    /\ UNCHANGED <<closeInputs, cSuccess, cSigned, cSent>>

CloseBlockhash ==
    /\ cPc = "blockhash"
    /\ cPc' = "sign"
    /\ UNCHANGED <<closeInputs, isProcessing, cError, cSuccess, transactionResult,
                   rentInfo, transaction, cSigned, cSent>>

CloseSign ==
    /\ cPc = "sign"
    /\ walletConnected
    /\ cSigned' = Append(cSigned, transaction)
    /\ cPc' = "send"
    /\ UNCHANGED <<closeInputs, isProcessing, cError, cSuccess, transactionResult,
                   rentInfo, transaction, cSent>>

CloseSend ==
    /\ cPc = "send"
    /\ cSent' = Append(cSent, transaction)
    /\ cPc' = "confirm"
    /\ UNCHANGED <<closeInputs, isProcessing, cError, cSuccess, transactionResult,
                   rentInfo, transaction, cSigned>>

CloseConfirm ==
    /\ cPc = "confirm"
    /\ transactionResult' = "success"
    /\ cSuccess' = "closed"
    /\ isProcessing' = FALSE
    /\ cPc' = "done"
    /\ UNCHANGED <<closeInputs, cError, rentInfo, transaction, cSigned, cSent>>

----------------------------------------------------------------------------
\* RentRecovery: handleAnalyze and SolanaUtils.getMultipleAccountsRentInfo

MaxAddresses == 2

AnalyzeLamports == {0, 890879, 890880, 890881, 2039280, 100000000}
AnalyzeAccounts == [exists : {TRUE}, lamports : AnalyzeLamports, owner : {"System"},
                    executable : {FALSE}, dataLength : DataLengths]
AddressLines == AnalyzeAccounts \cup {NoAccount, [exists |-> FALSE, invalid |-> TRUE]}

IsValidAddress(line) == "invalid" \notin DOMAIN line

\* a row that counts a balance equal to the rent-exemption minimum as closable
RentInfoRowInclusive(i, accountInfo) ==
    LET rentExemptAmount == getMinimumBalanceForRentExemption(accountInfo.dataLength)
        canClose == accountInfo.lamports >= rentExemptAmount
    IN  [accountAddress |-> i,
         rentAmount |-> rentExemptAmount,
         canClose |-> canClose,
         closeAmount |-> IF canClose THEN accountInfo.lamports - rentExemptAmount ELSE 0]

\* getMultipleAccountsRentInfo: the row pushed for an account that exists
RentInfoRow(i, accountInfo) ==
    LET rentExemptAmount == getMinimumBalanceForRentExemption(accountInfo.dataLength)
        canClose == accountInfo.lamports > rentExemptAmount
    IN  [accountAddress |-> i,
         rentAmount |-> rentExemptAmount,
         canClose |-> canClose,
         closeAmount |-> IF canClose THEN accountInfo.lamports - rentExemptAmount ELSE 0]

\* getMultipleAccountsRentInfo: the loop over the addresses, from index i
RECURSIVE RentInfoFrom(_, _)
RentInfoFrom(lines, i) ==
    IF i > Len(lines) THEN <<>>
    ELSE (IF lines[i].exists THEN <<RentInfoRow(i, lines[i])>> ELSE <<>>)
         \o RentInfoFrom(lines, i + 1)

getMultipleAccountsRentInfo(lines) == RentInfoFrom(lines, 1)

\* RentRecovery's result table: the balance column of a row
RowBalance(info) == info.rentAmount + info.closeAmount

\* RentRecovery after construction
AMounted ==
    /\ rentInfoList = <<>>
    /\ isLoading = FALSE
    /\ aError = Null
    /\ aSuccess = Null
    /\ aPc = "idle"

AInit ==
    /\ addresses \in UNION {[1..n -> AddressLines] : n \in 0..MaxAddresses}
    /\ AMounted

analyzeFrame == <<bvars, cvars, tvars, zvars, addresses>>

\* handleAnalyze: the click, the input checks, up to the await
AnalyzeClick ==
    /\ ~isLoading /\ walletInfo # NoWallet
    /\ LET rejected == IF Len(addresses) = 0 THEN "noAddresses"
                       ELSE IF \E i \in 1..Len(addresses) : ~IsValidAddress(addresses[i])
                       THEN "invalidAddresses"
                       ELSE Null
       IN  /\ aError' = rejected
           /\ aSuccess' = IF rejected = Null THEN Null ELSE aSuccess
           /\ isLoading' = (rejected = Null)
           /\ aPc' = IF rejected = Null THEN "fetch" ELSE "done"
    /\ UNCHANGED <<analyzeFrame, rentInfoList>>

\* handleAnalyze: getMultipleAccountsRentInfo returns or throws
AnalyzeResult(throws) ==
    /\ aPc = "fetch"
    /\ IF throws
       THEN /\ aError' = "analyzeFailed"
            /\ UNCHANGED <<rentInfoList, aSuccess>>
       ELSE /\ rentInfoList' = getMultipleAccountsRentInfo(addresses)
            /\ aSuccess' = "analyzed"
            /\ UNCHANGED aError
    /\ isLoading' = FALSE
    /\ aPc' = "done"
    /\ UNCHANGED analyzeFrame

----------------------------------------------------------------------------
\* SolanaUtils.getAccountTypeInfo

MaxDataLength == 201

NoTypeInfo == [type |-> Null, dataSize |-> 0]

\* getAccountTypeInfo: a type whose upper boundaries are exclusive
AccountTypeExclusive(executable, dataSize) ==
    IF executable THEN "Program Account"
    ELSE IF dataSize = 0 THEN "System Account"
    ELSE IF dataSize < 32 THEN "Token Account"
    ELSE IF dataSize < 200 THEN "Small Data Account"
    ELSE "Large Data Account"

\* getAccountTypeInfo: the type of an account whose data could be read
AccountType(executable, dataSize) ==
    IF executable THEN "Program Account"
    ELSE IF dataSize = 0 THEN "System Account"
    ELSE IF dataSize <= 32 THEN "Token Account"
    ELSE IF dataSize <= 200 THEN "Small Data Account"
    ELSE "Large Data Account"

\* getAccountTypeInfo: fetched is what its own getAccountInfo gave: "data",
\* "null" (no such account) or "throws"
getAccountTypeInfo(accountInfo, fetched) ==
    IF fetched = "data"
    THEN [type |-> AccountType(accountInfo.executable, accountInfo.dataLength),
          dataSize |-> accountInfo.dataLength]
    ELSE [type |-> "Unknown", dataSize |-> 0]

TMounted ==
    /\ typeAccount = [executable |-> FALSE, dataLength |-> 0, fetched |-> "null"]
    /\ typeInfo = NoTypeInfo

TInit ==
    /\ typeAccount \in [executable : BOOLEAN, dataLength : 0..MaxDataLength,
                         fetched : {"data", "null", "throws"}]
    /\ typeInfo = NoTypeInfo

\* one call of getAccountTypeInfo
GetAccountTypeInfo ==
    /\ typeInfo = NoTypeInfo
    /\ typeInfo' = getAccountTypeInfo(typeAccount, typeAccount.fetched)
    /\ UNCHANGED <<bvars, cvars, avars, zvars, typeAccount>>

----------------------------------------------------------------------------
\* AccountCloser: findZeroBalanceTokenAccounts and batchCloseZeroBalanceAccounts

MaxTokenAccounts == 2

NoBatchResult == [none |-> TRUE]

ZMounted ==
    /\ zeroBalanceAccounts = <<>>
    /\ isBatchLoading = FALSE
    /\ batchResult = NoBatchResult
    /\ fPc = "idle"
    /\ zPc = "idle"
    /\ zList = <<>>
    /\ zWallet = NoWallet
    /\ zIndex = 0
    /\ zSuccessCount = 0
    /\ zFailedCount = 0
    /\ zSigned = <<>>
    /\ zSent = <<>>
    /\ zOutcome = <<>>

ZInit ==
    /\ walletTokens \in [tokenCount : 0..MaxTokenAccounts, nonZero : BOOLEAN]
    /\ ZMounted

batchCloseFrame == <<chain, variant, privateKeys, walletDataList, isScanning, isRecovering,
                     error, success, recoveryResult, scanN, scanI, scanList, scanLog,
                     freshScan, rPc, runList, payerBalance, allInstructions, batches,
                     batchIndex, totalSolRecovered, totalRentRecovered, successCount,
                     failedCount, feePayer, signed, inFlight, outcome, detachedRun, avars,
                     tvars, accountToClose,
                     destination, account, accountStatus, transactionResult, cPc, rentInfo,
                     transaction, cSigned, cSent, walletTokens>>

findUnch == <<zeroBalanceAccounts, isBatchLoading, batchResult, fPc>>
zRunUnch == <<zPc, zList, zWallet, zIndex, zSuccessCount, zFailedCount, zSigned, zSent,
              zOutcome>>

\* WalletConnection.handleDisconnect: the extension disconnects and App drops walletInfo
WalletDisconnect ==
    /\ walletInfo # NoWallet
    /\ walletInfo' = NoWallet
    /\ walletConnected' = FALSE
    /\ UNCHANGED <<batchCloseFrame, findUnch, zRunUnch, isProcessing, cError, cSuccess,
                   currentPage>>

\* findZeroBalanceTokenAccounts, up to the await of getTokenAccountsByOwner
FindStart ==
    /\ ~isBatchLoading /\ walletInfo # NoWallet
    /\ isBatchLoading' = TRUE
    /\ cError' = Null
    /\ zeroBalanceAccounts' = <<>>
    /\ batchResult' = NoBatchResult
    /\ fPc' = "fetch"
    /\ UNCHANGED <<batchCloseFrame, walletVars, zRunUnch, isProcessing, cSuccess>>

\* findZeroBalanceTokenAccounts: getTokenAccountsByOwner returns or throws
FindResult(throws) ==
    /\ fPc = "fetch"
    /\ IF throws
       THEN /\ cError' = "findFailed"
            /\ UNCHANGED <<zeroBalanceAccounts, cSuccess>>
       ELSE LET z == ZeroBalanceTokens(TokenAccounts(Payer, walletTokens.tokenCount,
                                                     walletTokens.nonZero))
            IN  /\ zeroBalanceAccounts' = z
                /\ cSuccess' = IF Len(z) = 0 THEN "noneFound" ELSE "found"
                /\ UNCHANGED cError
    /\ isBatchLoading' = FALSE
    /\ fPc' = "idle"
    /\ UNCHANGED <<batchCloseFrame, walletVars, zRunUnch, isProcessing, batchResult>>

\* batchCloseZeroBalanceAccounts: the transaction of one account can be built
\* (new PublicKey(destination) and walletInfo!.address do not throw)
CanBuildClose(wallet, dest) == wallet # NoWallet /\ dest = "dest"

\* batchCloseZeroBalanceAccounts: the close instruction of one account
ZeroBalanceClose(acct, wallet, dest) ==
    [type |-> "closeToken", account |-> acct.address, to |-> dest, owner |-> wallet,
     amount |-> acct.rentAmount]

\* batchCloseZeroBalanceAccounts: the click; the first account's transaction is
\* built, or every account fails while its transaction is built and the run ends
BatchCloseStart ==
    /\ ~isProcessing /\ Len(zeroBalanceAccounts) > 0
    /\ zPc \in {"idle", "done"}
    /\ zList' = zeroBalanceAccounts
    /\ zWallet' = walletInfo
    /\ zSuccessCount' = 0
    /\ zSigned' = <<>>
    /\ zSent' = <<>>
    /\ cError' = Null
    /\ IF CanBuildClose(walletInfo, destination)
       THEN /\ zPc' = "blockhash"
            /\ zIndex' = 1
            /\ zFailedCount' = 0
            /\ isProcessing' = TRUE
            /\ cSuccess' = Null
            /\ batchResult' = [success |-> 0, failed |-> 0,
                               total |-> Len(zeroBalanceAccounts)]
            /\ zOutcome' = <<>>
       ELSE /\ zPc' = "done"
            /\ zIndex' = Len(zeroBalanceAccounts)
            /\ zFailedCount' = Len(zeroBalanceAccounts)
            /\ isProcessing' = FALSE
            /\ cSuccess' = "batchClosed"
            /\ batchResult' = [success |-> 0, failed |-> Len(zeroBalanceAccounts),
                               total |-> Len(zeroBalanceAccounts)]
            /\ zOutcome' = [i \in 1..Len(zeroBalanceAccounts) |-> "failed"]
    /\ UNCHANGED <<batchCloseFrame, walletVars, zeroBalanceAccounts, isBatchLoading, fPc>>

zStepUnch == <<batchCloseFrame, walletVars, findUnch, zList, zWallet, zIndex, zSuccessCount,
               zFailedCount, zOutcome, isProcessing, cError, cSuccess>>

\* getLatestBlockhash returns; the fee payer is set
BatchCloseBlockhash ==
    /\ zPc = "blockhash"
    /\ zPc' = "sign"
    /\ UNCHANGED <<zStepUnch, zSigned, zSent>>

\* walletAdapter.signTransaction returns (it throws when the extension is not connected)
BatchCloseSign ==
    /\ zPc = "sign"
    /\ walletConnected
    /\ zSigned' = Append(zSigned, <<ZeroBalanceClose(zList[zIndex], zWallet, destination)>>)
    /\ zPc' = "send"
    /\ UNCHANGED <<zStepUnch, zSent>>

BatchCloseSend ==
    /\ zPc = "send"
    /\ zSent' = Append(zSent, <<ZeroBalanceClose(zList[zIndex], zWallet, destination)>>)
    /\ zPc' = "confirm"
    /\ UNCHANGED <<zStepUnch, zSigned>>

\* the end of one turn of the loop with the counts s and f: the next account,
\* or the end of the run
BatchCloseAdvance(s, f) ==
    /\ zSuccessCount' = s
    /\ zFailedCount' = f
    /\ IF zIndex < Len(zList)
       THEN /\ zIndex' = zIndex + 1
            /\ zPc' = "blockhash"
            /\ batchResult' = IF s > zSuccessCount
                              THEN [success |-> s, failed |-> f, total |-> Len(zList)]
                              ELSE batchResult
            /\ UNCHANGED <<isProcessing, cSuccess>>
       ELSE /\ zPc' = "done"
            /\ batchResult' = [success |-> s, failed |-> f, total |-> Len(zList)]
            /\ cSuccess' = "batchClosed"
            /\ isProcessing' = FALSE
            /\ UNCHANGED zIndex
    /\ UNCHANGED <<batchCloseFrame, walletVars, zeroBalanceAccounts, isBatchLoading, fPc,
                   zList, zWallet, cError>>

\* confirmTransaction returns
BatchCloseConfirm ==
    /\ zPc = "confirm"
    /\ BatchCloseAdvance(zSuccessCount + 1, zFailedCount)
    /\ zOutcome' = Append(zOutcome, "confirmed")
    /\ UNCHANGED <<zSigned, zSent>>

\* a throw that ends the whole run: the accounts after it get no turn
BatchCloseThrowAborts ==
    /\ zPc \in {"blockhash", "sign", "send", "confirm"}
    /\ zFailedCount' = zFailedCount + 1
    /\ zOutcome' = Append(zOutcome, "failed")
    /\ zPc' = "done"
    /\ batchResult' = [success |-> zSuccessCount, failed |-> zFailedCount + 1,
                       total |-> Len(zList)]
    /\ cSuccess' = "batchClosed"
    /\ isProcessing' = FALSE
    /\ zSigned' = IF zPc = "sign"
                  THEN Append(zSigned,
                              <<ZeroBalanceClose(zList[zIndex], zWallet, destination)>>)
                  ELSE zSigned
    /\ UNCHANGED <<batchCloseFrame, walletVars, zeroBalanceAccounts, isBatchLoading, fPc,
                   zList, zWallet, zIndex, zSuccessCount, cError, zSent>>

\* the catch of one account: an await of its turn throws
BatchCloseThrow ==
    /\ zPc \in {"blockhash", "sign", "send", "confirm"}
    /\ BatchCloseAdvance(zSuccessCount, zFailedCount + 1)
    /\ zOutcome' = Append(zOutcome, "failed")
    /\ zSigned' = IF zPc = "sign"
                  THEN Append(zSigned,
                              <<ZeroBalanceClose(zList[zIndex], zWallet, destination)>>)
                  ELSE zSigned
    /\ UNCHANGED zSent

----------------------------------------------------------------------------
\* The batch wallet manager
Init ==
    /\ currentPage = "batch"
    /\ BInit
    /\ accountToClose = "" /\ destination = "" /\ account = NoAccount
    /\ CMounted
    /\ addresses = <<>>
    /\ AMounted
    /\ TMounted
    /\ walletTokens = [tokenCount |-> 0, nonZero |-> FALSE]
    /\ ZMounted

Next ==
    \/ SetPrivateKeys
    \/ ScanStart
    \/ \E throws \in BOOLEAN : ScanWallet(throws)
    \/ ClearData
    \/ RecoverStart
    \/ \E balance \in PayerBalances : RecoverPayer(balance)
    \/ RecoverStartSingle
    \/ RecoverBlockhash
    \/ RecoverSign
    \/ RecoverSend
    \/ RecoverConfirm
    \/ RecoverThrow

Spec == Init /\ [][Next]_vars

\* The account closer
InitCloser ==
    /\ currentPage = "tools"
    /\ chain = <<>> /\ variant = "batched"
    /\ detachedRun = FALSE
    /\ WalletInit
    /\ BMounted
    /\ CInit
    /\ addresses = <<>>
    /\ AMounted
    /\ TMounted
    /\ walletTokens = [tokenCount |-> 0, nonZero |-> FALSE]
    /\ ZMounted

NextCloser ==
    \/ \E throws \in BOOLEAN : CheckAccountStatus(throws)
    \/ CloseClick
    \/ \E throws \in BOOLEAN : ClosePrecheck(throws)
    \/ CloseInfo
    \/ CloseEvaluate
    \/ CloseBlockhash
    \/ CloseSign
    \/ CloseSend
    \/ CloseConfirm
    \/ CloseThrow

SpecCloser == InitCloser /\ [][NextCloser]_vars

\* The rent analysis
InitAnalyze ==
    /\ currentPage = "tools"
    /\ chain = <<>> /\ variant = "batched"
    /\ detachedRun = FALSE
    /\ WalletInit
    /\ BMounted
    /\ accountToClose = "" /\ destination = "" /\ account = NoAccount
    /\ CMounted
    /\ AInit
    /\ TMounted
    /\ walletTokens = [tokenCount |-> 0, nonZero |-> FALSE]
    /\ ZMounted

NextAnalyze ==
    \/ AnalyzeClick
    \/ \E throws \in BOOLEAN : AnalyzeResult(throws)

SpecAnalyze == InitAnalyze /\ [][NextAnalyze]_vars

\* The account type classifier
InitClassify ==
    /\ currentPage = "tools"
    /\ chain = <<>> /\ variant = "batched"
    /\ detachedRun = FALSE
    /\ walletInfo = NoWallet /\ walletConnected = FALSE
    /\ BMounted
    /\ accountToClose = "" /\ destination = "" /\ account = NoAccount
    /\ CMounted
    /\ addresses = <<>>
    /\ AMounted
    /\ TInit
    /\ walletTokens = [tokenCount |-> 0, nonZero |-> FALSE]
    /\ ZMounted

NextClassify == GetAccountTypeInfo

SpecClassify == InitClassify /\ [][NextClassify]_vars

\* The batch close of the connected wallet's zero balance token accounts
InitBatchClose ==
    /\ currentPage = "tools"
    /\ chain = <<>> /\ variant = "batched"
    /\ detachedRun = FALSE
    /\ WalletInit
    /\ BMounted
    /\ accountToClose = "" /\ account = NoAccount
    /\ destination \in {"", "invalid", "dest"}
    /\ CMounted
    /\ addresses = <<>>
    /\ AMounted
    /\ TMounted
    /\ ZInit

NextBatchClose ==
    \/ WalletDisconnect
    \/ FindStart
    \/ \E throws \in BOOLEAN : FindResult(throws)
    \/ BatchCloseStart
    \/ BatchCloseBlockhash
    \/ BatchCloseSign
    \/ BatchCloseSend
    \/ BatchCloseConfirm
    \/ BatchCloseThrow

SpecBatchClose == InitBatchClose /\ [][NextBatchClose]_vars

\* The busy flags: one page of App with its components, every pending await of
\* a run returning or throwing in the end
\* a wallet with nothing to recover, a wallet with a transfer and twenty closes
EmptyWallet == [solBalance |-> SolReserve, tokenCount |-> 0, nonZero |-> FALSE]
FullWallet == [solBalance |-> SolReserve + 1, tokenCount |-> maxInstructionsPerTransaction,
               nonZero |-> FALSE]

\* full wallets, the first one possibly empty
LiveChains ==
    {c \in Chains : c[1] \in {EmptyWallet, FullWallet}
                     /\ \A k \in 2..Len(c) : c[k] = FullWallet}

LiveAccounts == {a \in Accounts : a.owner = "System" /\ a.lamports \in {9999, 890880, 890881}}

InitLive ==
    \/ /\ currentPage = "batch"
       /\ chain \in LiveChains
       /\ variant \in {"batched", "single"}
       /\ detachedRun = FALSE
       /\ WalletInit
       /\ BMounted
       /\ accountToClose = "" /\ destination = "" /\ account = NoAccount
       /\ CMounted
       /\ addresses = <<>>
       /\ AMounted
       /\ TMounted
       /\ walletTokens = [tokenCount |-> 0, nonZero |-> FALSE]
       /\ ZMounted
    \/ /\ currentPage = "tools"
       /\ chain = <<>> /\ variant = "batched"
       /\ detachedRun = FALSE
       /\ WalletInit
       /\ BMounted
       /\ accountToClose = "acct" /\ destination = "dest"
       /\ account \in LiveAccounts \cup {NoAccount}
       /\ CMounted
       /\ addresses = <<>>
       /\ AMounted
       /\ TMounted
       /\ walletTokens = [tokenCount |-> 0, nonZero |-> FALSE]
       /\ ZMounted
    \/ /\ currentPage = "tools"
       /\ chain = <<>> /\ variant = "batched"
       /\ detachedRun = FALSE
       /\ WalletInit
       /\ BMounted
       /\ accountToClose = "" /\ account = NoAccount
       /\ destination \in {"invalid", "dest"}
       /\ CMounted
       /\ addresses = <<>>
       /\ AMounted
       /\ TMounted
       /\ walletTokens \in [tokenCount : 1..MaxTokenAccounts, nonZero : {FALSE}]
       /\ ZMounted

\* a pending await of each run returns or throws; for a scan, the turn of the
\* loop ends: the next wallet is entered or the scan is over
ScanAwait ==
    /\ isScanning /\ scanI < scanN
    /\ \/ scanI' = scanI + 1 /\ isScanning' = isScanning
       \/ scanI' = 0 /\ isScanning' = FALSE
RecoverAwait ==
    \/ \E balance \in PayerBalances : RecoverPayer(balance)
    \/ RecoverBlockhash
    \/ RecoverSign
    \/ RecoverSend
    \/ RecoverConfirm
    \/ RecoverThrow
CloseAwait ==
    \/ \E throws \in BOOLEAN : ClosePrecheck(throws)
    \/ CloseInfo
    \/ CloseEvaluate
    \/ CloseBlockhash
    \/ CloseSign
    \/ CloseSend
    \/ CloseConfirm
    \/ CloseThrow
BatchCloseAwait ==
    \/ BatchCloseBlockhash
    \/ BatchCloseSign
    \/ BatchCloseSend
    \/ BatchCloseConfirm
    \/ BatchCloseThrow

NextLive ==
    \/ currentPage = "batch" /\ Next
    \/ currentPage = "tools" /\ NextCloser
    \/ currentPage = "tools" /\ NextBatchClose

SpecLive ==
    /\ InitLive
    /\ [][NextLive]_vars
    /\ WF_<<scanI, isScanning>>(ScanAwait)
    /\ WF_vars(RecoverAwait)
    /\ WF_vars(CloseAwait)
    /\ WF_vars(BatchCloseAwait)

\* App with its page buttons: BatchWalletManager is mounted on the batch page only
InitPages ==
    /\ currentPage = "tools"
    /\ chain \in LiveChains
    /\ variant \in {"batched", "single"}
    /\ detachedRun = FALSE
    /\ WalletInit
    /\ BMounted
    /\ accountToClose = "" /\ destination = "" /\ account = NoAccount
    /\ CMounted
    /\ addresses = <<>>
    /\ AMounted
    /\ TMounted
    /\ walletTokens = [tokenCount |-> 0, nonZero |-> FALSE]
    /\ ZMounted

\* the page buttons: setCurrentPage(page).  Leaving the batch page unmounts
\* BatchWalletManager: its state is dropped (the next mount starts from the
\* initial state), and a run it started goes on by itself
SetCurrentPage(page) ==
    /\ page # currentPage
    /\ currentPage' = page
    /\ IF currentPage = "batch"
       THEN /\ detachedRun' = (detachedRun \/ isRecovering)
            /\ privateKeys' = 0
            /\ walletDataList' = <<>>
            /\ isScanning' = FALSE
            /\ isRecovering' = FALSE
            /\ error' = Null
            /\ success' = Null
            /\ recoveryResult' = NoResult
            /\ scanN' = 0 /\ scanI' = 0 /\ scanList' = <<>>
            /\ scanLog' = {}
            /\ freshScan' = FALSE
            /\ rPc' = "idle"
            /\ runList' = <<>>
            /\ payerBalance' = 0
            /\ allInstructions' = <<>>
            /\ batches' = <<>>
            /\ batchIndex' = 0
            /\ totalSolRecovered' = 0
            /\ totalRentRecovered' = 0
            /\ successCount' = 0
            /\ failedCount' = 0
            /\ feePayer' = NoWallet
            /\ signed' = <<>>
            /\ inFlight' = {}
            /\ outcome' = <<>>
       ELSE UNCHANGED <<detachedRun, privateKeys, walletDataList, isScanning, isRecovering,
                        error, success, recoveryResult, scanUnch, freshScan, runUnch>>
    /\ UNCHANGED <<chain, variant, walletInfo, walletConnected, cvars, avars, tvars, zvars>>

\* the last await of a run whose component is gone returns or throws: its
\* setState calls change nothing
DetachedRunEnds ==
    /\ detachedRun
    /\ detachedRun' = FALSE
    /\ UNCHANGED <<chain, variant, walletVars, privateKeys, walletDataList, isScanning,
                   isRecovering, error, success, recoveryResult, scanUnch, freshScan,
                   runUnch, cvars, avars, tvars, zvars>>

NextPages ==
    \/ currentPage = "batch" /\ Next
    \/ \E page \in {"tools", "batch"} : SetCurrentPage(page)
    \/ DetachedRunEnds

SpecPages == InitPages /\ [][NextPages]_vars

----------------------------------------------------------------------------
\* Claims about the recovery run

CeilDiv(n, m) == (n + m - 1) \div m

Confirmed == {i \in 1..Len(outcome) : outcome[i] = "confirmed"}
Failed == {i \in 1..Len(outcome) : outcome[i] = "failed"}

ConfirmedSol ==
    SumSeq([i \in 1..Len(batches) |-> IF i \in Confirmed THEN SolOf(batches[i]) ELSE 0])
ConfirmedRent ==
    SumSeq([i \in 1..Len(batches) |-> IF i \in Confirmed THEN RentOf(batches[i]) ELSE 0])

\* the run has ended after it entered the submission phase
RunEnded == rPc = "done" /\ batchIndex >= 1

\* C1: a batch that fails to sign, broadcast or confirm is recorded as failed
\* and the later batches are still submitted: when the run has ended, every
\* batch has been submitted and has an outcome.
C1_FailedBatchDoesNotAbort ==
    RunEnded => Len(outcome) = Len(batches)

\* C2: when the run ends, the report's success count is the number of
\* confirmed batches, its failure count the number of failed batches, and its
\* totals sum the instructions of the confirmed batches only.
C2_ReportCountsBatches ==
    RunEnded =>
        /\ recoveryResult # NoResult
        /\ recoveryResult.success = Cardinality(Confirmed)
        /\ recoveryResult.failed = Cardinality(Failed)
        /\ recoveryResult.totalSol = ConfirmedSol
        /\ recoveryResult.totalRent = ConfirmedRent

\* C3: N >= 1 instructions give ceil(N/M) transactions, each handed to the
\* signer with 1..M instructions, and all but the last with exactly M.
C3_BatchSizes ==
    /\ batches # <<>> =>
          /\ Len(batches) = CeilDiv(Len(allInstructions), maxInstructionsPerTransaction)
          /\ \A i \in 1..(Len(batches) - 1) :
                Len(batches[i]) = maxInstructionsPerTransaction
    /\ \A i \in 1..Len(signed) :
          /\ Len(signed[i]) >= 1
          /\ Len(signed[i]) <= maxInstructionsPerTransaction

\* C4: the batches partition the collected instruction stream: their lengths
\* sum to its length, their concatenation in submission order is the stream
\* itself, and the transactions handed to the signer are the batches, in order.
C4_BatchesPartitionStream ==
    /\ batches # <<>> =>
          /\ SumSeq([i \in 1..Len(batches) |-> Len(batches[i])]) = Len(allInstructions)
          /\ Concat(batches) = allInstructions
    /\ Len(signed) <= Len(batches)
    /\ \A i \in 1..Len(signed) : signed[i] = batches[i]
    /\ (rPc = "done" /\ recoveryResult # NoResult) => Concat(signed) = allInstructions

\* a run of three batches, the last one shorter, all handed to the signer
C4_Witness ==
    /\ rPc = "done" /\ recoveryResult # NoResult
    /\ Len(signed) = 3
    /\ Len(signed[3]) < maxInstructionsPerTransaction
    /\ Len(allInstructions) > 2 * maxInstructionsPerTransaction

\* C5: batches are submitted one at a time in batch order: the blockhash
\* request, signing and broadcast of a batch start only once every earlier
\* batch's confirmation wait has ended, and at most one transaction of the run
\* is in flight.
C5_OneBatchAtATime ==
    /\ Cardinality(inFlight) <= 1
    /\ rPc \in {"blockhash", "sign", "send"} =>
          /\ inFlight = {}
          /\ Len(outcome) = batchIndex - 1
          /\ Len(signed) = IF rPc = "send" THEN batchIndex ELSE batchIndex - 1
    /\ rPc = "confirm" => inFlight = {batchIndex} /\ Len(outcome) = batchIndex - 1

\* the second batch is being signed after the first one was confirmed
C5_Witness ==
    /\ rPc = "sign" /\ batchIndex = 2
    /\ outcome = <<"confirmed">>
    /\ inFlight = {}

----------------------------------------------------------------------------
\* Claims about eligibility and the instruction built for one account

RentOfAccount(a) == getMinimumBalanceForRentExemption(a.dataLength)

\* eligibility as the decision rule states it
Eligible(a) == a.lamports >= Max(RentOfAccount(a), minRequiredBalance)

\* C6: an account is eligible exactly when its balance is at least
\* max(rent-exemption minimum, fee floor), a balance equal to it included, and
\* the status check, canCloseAccount and the close checks all give that answer.
C6_EligibilityAgrees ==
    /\ accountStatus.reason \in {"canClose", "insufficient"} =>
          accountStatus.canClose = Eligible(account)
    /\ rentInfo # NoRentInfo =>
          /\ rentInfo.canClose = Eligible(account)
          /\ (transaction # <<>>) = Eligible(account)

\* C7: the Transfer built for an eligible system-owned account carries
\* balance - max(rent-exemption minimum, fee floor), never negative and never
\* more than the balance.
C7_TransferIsRecoverableAmount ==
    \A i \in 1..Len(transaction) :
        (account.owner = "System" /\ transaction[i].type = "transfer") =>
            /\ transaction[i].amount =
                  account.lamports - Max(RentOfAccount(account), minRequiredBalance)
            /\ transaction[i].amount >= 0
            /\ transaction[i].amount <= account.lamports

\* C8: for every row of an analysis, closeAmount + rentAmount is the account's
\* lamport balance, so the balance column of the row is the real balance.
C8_LamportConservation ==
    \A i \in 1..Len(rentInfoList) :
        RowBalance(rentInfoList[i]) = addresses[rentInfoList[i].accountAddress].lamports

\* C9: for an account owned by neither the System Program, the Token Program
\* nor the BPF loader instruction building fails: no instruction is built,
\* signed or broadcast for that account.
C9_UnsupportedOwnerRejected ==
    (account.exists /\ account.owner \notin {"System", "Token", "BPFLoader"}) =>
        /\ transaction = <<>>
        /\ cSigned = <<>>
        /\ cSent = <<>>

\* C10: a Token-Program-owned account whose balance equals its rent-exemption
\* minimum is eligible with recoverable amount 0, and closing it with
\* handleCloseAccount builds the token account close instruction.
C10_TokenAccountAtRentCloses ==
    (/\ account.exists
     /\ account.owner = "Token"
     /\ account.lamports = RentOfAccount(account)
     /\ rentInfo # NoRentInfo) =>
        /\ rentInfo.canClose
        /\ rentInfo.closeAmount = 0
        /\ Len(transaction) = 1
        /\ transaction[1].type = "closeToken"

----------------------------------------------------------------------------
\* Claims about the instruction kind, the instruction order and empty runs

\* the type getAccountTypeInfo gives the account handleCloseAccount works on
ClassOf(a) == AccountType(a.executable, a.dataLength)

\* C11: the instruction built for an account is the program account close
\* exactly when the classifier labels the account a Program Account
\* (executable flag set); such an account never gets a Transfer.
C11_ProgramAccountGetsProgramClose ==
    \A i \in 1..Len(transaction) :
        /\ ClassOf(account) = "Program Account" => transaction[i].type = "closeProgram"
        /\ transaction[i].type = "closeProgram" => ClassOf(account) = "Program Account"

\* the place of an instruction within its wallet: the transfer, then the token
\* accounts in the order getTokenAccountsByOwner listed them
PlaceInWallet(ins) == IF ins.type = "transfer" THEN 0 ELSE ins.account[2]

\* instruction a comes before instruction b in the order the wallets were supplied
SuppliedBefore(a, b) ==
    \/ a.owner < b.owner
    \/ a.owner = b.owner /\ PlaceInWallet(a) < PlaceInWallet(b)

\* C12: the collected stream is in the order the wallets were supplied (per
\* wallet the transfer, then its token account closes in scan order), and the
\* instructions handed to the signer so far, transaction after transaction,
\* are a prefix of that stream in the same order.
C12_OrderPreserved ==
    /\ \A p \in 1..(Len(allInstructions) - 1) :
          SuppliedBefore(allInstructions[p], allInstructions[p + 1])
    /\ LET submitted == Concat(signed)
       IN  /\ Len(submitted) <= Len(allInstructions)
           /\ \A p \in 1..Len(submitted) : submitted[p] = allInstructions[p]

\* two wallets, each with a transfer and twenty closes, submitted in three transactions
C12_Witness ==
    /\ rPc = "done" /\ recoveryResult # NoResult
    /\ Len(runList) = 2
    /\ Len(allInstructions) = 2 * (maxInstructionsPerTransaction + 1)
    /\ Len(signed) = 3

\* C13: a run that finds no instruction at all (no wallet above the SOL
\* reserve, no zero balance token account) and whose ledger calls did not
\* throw ends without an error, with a report of zero batches and zero totals,
\* and with nothing requested from the ledger or the signer.
C13_EmptyRunIsNoOp ==
    [][(/\ rPc # "done" /\ rPc' = "done"
        /\ error' # "recoverFailed"
        /\ CollectInstructions(runList', walletInfo) = <<>>) =>
           /\ error' = Null
           /\ recoveryResult' # NoResult
           /\ recoveryResult'.totalSol = 0 /\ recoveryResult'.totalRent = 0
           /\ batches' = <<>> /\ signed' = <<>> /\ inFlight' = {}]_vars

\* C14: while the signer is unavailable (no walletInfo, or the wallet extension
\* is not connected) a recovery run never enters the submission phase: no
\* blockhash is requested, no signature is requested, nothing is broadcast.
C14_NoSignerNoSubmission ==
    (walletInfo = NoWallet \/ ~walletConnected) =>
        /\ rPc \notin {"blockhash", "sign", "send", "confirm"}
        /\ signed = <<>>
        /\ inFlight = {}

----------------------------------------------------------------------------
\* Claims about scanning and analysis

\* the candidates (indexes of the key lines) a list of wallet data holds
KeysOf(list) == {list[i].publicKey : i \in 1..Len(list)}

C16_OneOutcomePerCandidate ==
    (aPc = "done" /\ aSuccess = "analyzed") => Len(rentInfoList) = Len(addresses)

----------------------------------------------------------------------------
\* Claims about address validation and the read-only entry points

\* handleCloseAccount with a malformed account or destination address: no
\* ledger request is made and the error is set
CloseRejectsMalformed ==
    (accountToClose = "invalid" \/ destination = "invalid") =>
        /\ cPc \in {"idle", "done"}
        /\ cSigned = <<>> /\ cSent = <<>>
        /\ cPc = "done" => cError \in {"noAccount", "noDestination", "invalidAccount",
                                       "invalidDestination"}

\* handleAnalyze with a malformed address line: no ledger request is made and
\* the error is set
AnalyzeRejectsMalformed ==
    (\E i \in 1..Len(addresses) : ~IsValidAddress(addresses[i])) =>
        /\ aPc \in {"idle", "done"}
        /\ rentInfoList = <<>>
        /\ aPc = "done" => aError = "invalidAddresses"

\* batchCloseZeroBalanceAccounts with a malformed destination: no blockhash is
\* requested, nothing is signed or broadcast
BatchCloseRequestsNothing ==
    destination = "invalid" =>
        /\ zPc \in {"idle", "done"}
        /\ zSigned = <<>> /\ zSent = <<>>

\* C17: with a malformed account or destination address the analyze and close
\* operations make no ledger request and end with an error.
C17_MalformedAddressRejected ==
    /\ [](CloseRejectsMalformed /\ AnalyzeRejectsMalformed /\ BatchCloseRequestsNothing)
    /\ [][(destination = "invalid" /\ zPc # "done" /\ zPc' = "done") =>
             (cError' # Null /\ cSuccess' # "batchClosed")]_vars

----------------------------------------------------------------------------
\* Claims about the account type classifier

\* the label the decision table gives for (executable, dataLength)
TableType(executable, dataLength) ==
    CASE executable -> "Program Account"
      [] ~executable /\ dataLength = 0 -> "System Account"
      [] ~executable /\ dataLength \in 1..32 -> "Token Account"
      [] ~executable /\ dataLength \in 33..200 -> "Small Data Account"
      [] ~executable /\ dataLength >= 201 -> "Large Data Account"

\* C18: for every account whose data can be read the classifier returns the
\* label of the decision table for (executable, dataLength), with the data
\* length as the size: executable gives Program Account for every length,
\* otherwise 0 gives System, 1..32 Token, 33..200 Small Data, 201 and more
\* Large Data Account.  (Unknown is returned only when the data cannot be read.)
C18_ClassifierBoundaries ==
    typeInfo # NoTypeInfo =>
        IF typeAccount.fetched = "data"
        THEN /\ typeInfo.type = TableType(typeAccount.executable, typeAccount.dataLength)
             /\ typeInfo.dataSize = typeAccount.dataLength
        ELSE typeInfo.type = "Unknown"

\* a non-executable account of exactly 32 bytes was classified
C18_Witness ==
    /\ typeInfo # NoTypeInfo
    /\ typeAccount.fetched = "data"
    /\ ~typeAccount.executable /\ typeAccount.dataLength = 32
    /\ typeInfo.type = "Token Account"

\* a step of a scan, of an analysis, of a search for zero balance token accounts
ScanStep == isScanning' # isScanning \/ scanI' # scanI
AnalyzeStep == aPc' # aPc
FindStep == fPc' # fPc

\* everything the signer was asked to sign and everything broadcast
Submissions == <<signed, inFlight, outcome, cSigned, cSent, zSigned, zSent>>

\* C19: no step of scanAllWallets, of handleAnalyze or of
\* findZeroBalanceTokenAccounts asks the wallet for a signature or broadcasts
\* a transaction, whatever the accounts hold and whatever else is running.
C19_ScanAndAnalyzeReadOnly ==
    [][(ScanStep \/ AnalyzeStep \/ FindStep) => UNCHANGED Submissions]_vars

\* a scan is under way while a recovery run has handed a transaction to the signer
C19_Witness ==
    /\ isScanning /\ scanI >= 1
    /\ Len(signed) >= 1
    /\ rPc \in {"send", "confirm"}

----------------------------------------------------------------------------
\* Claims about repeated runs

\* C20: once a recovery run that submitted a batch has ended (confirmed or
\* failed), a new run starts only from wallet data scanned after that run ended.
C20_NoRerunWithoutRescan ==
    [][(RunEnded /\ rPc' \in {"payer", "blockhash"}) => freshScan]_vars

----------------------------------------------------------------------------
\* Claims about the rent rule

\* C21: every row of getMultipleAccountsRentInfo has canClose = TRUE exactly
\* when the account's balance is strictly greater than its rent-exemption
\* minimum, with closeAmount = balance - rent then and closeAmount = 0
\* otherwise, and canCloseAccount gives the same rent, canClose and closeAmount
\* for the same account.
C21_StrictRentRule ==
    \A i \in 1..Len(rentInfoList) :
        LET row == rentInfoList[i]
            a == addresses[row.accountAddress]
            rent == getMinimumBalanceForRentExemption(a.dataLength)
            single == canCloseAccount(a)
        IN  /\ row.canClose = (a.lamports > rent)
            /\ row.closeAmount = IF a.lamports > rent THEN a.lamports - rent ELSE 0
            /\ single.canClose = row.canClose
            /\ single.closeAmount = row.closeAmount
            /\ single.rentAmount = row.rentAmount

\* an analysis of one account above its minimum and one holding exactly its minimum
C21_Witness ==
    /\ aPc = "done" /\ Len(rentInfoList) = 2
    /\ addresses[1].lamports = 890881 /\ addresses[1].dataLength = 0
    /\ rentInfoList[1].canClose /\ rentInfoList[1].closeAmount = 1
    /\ addresses[2].lamports = 2039280 /\ addresses[2].dataLength = 165
    /\ ~rentInfoList[2].canClose /\ rentInfoList[2].closeAmount = 0

----------------------------------------------------------------------------
\* Claims about the fee payer, the instructions' targets and the SOL reserve

\* the fee the run requires of the payer
TotalRequiredFee == (estimatedFeePerTransaction + safetyBuffer) * Len(batches)

\* the run has entered its submission phase
Submitting == rPc \in {"blockhash", "sign", "send", "confirm"} \/ batchIndex >= 1

\* a run that requests a blockhash, signs or broadcasts read a payer balance of
\* at least the required fee; a run whose payer balance was below it requested
\* nothing
PayerCovered ==
    /\ Submitting => payerBalance >= TotalRequiredFee
    /\ (rPc = "done" /\ batches # <<>> /\ payerBalance < TotalRequiredFee) =>
          batchIndex = 0 /\ signed = <<>> /\ inFlight = {} /\ outcome = <<>>

\* C22: the payer's balance is checked before submission: a run that requests
\* a blockhash, signs or broadcasts read a payer balance of at least
\* (5000 + 10000) * number of batches at its start, and a run whose payer
\* balance is below that stops with the error before anything is requested.
C22_PayerCheckedBeforeSubmission ==
    /\ []PayerCovered
    /\ [][(rPc = "payer" /\ batches' # <<>> /\ payerBalance' < TotalRequiredFee') =>
             (rPc' = "done" /\ error' = "insufficientPayer")]_vars

\* the token amount the scan read for the account a close instruction of
\* recoverAllWallets targets (-1: no such token account was read)
ScannedAmount(ins) ==
    LET k == ins.account[1]
        j == ins.account[2]
    IN  IF k \in 1..Len(chain) /\ j \in 1..chain[k].tokenCount
        THEN TokenAccounts(k, chain[k].tokenCount, chain[k].nonZero)[j].tokenAmount
        ELSE -1

\* the same for a close instruction of batchCloseZeroBalanceAccounts
FoundAmount(ins) ==
    LET j == ins.account[2]
    IN  IF ins.account[1] = Payer /\ j \in 1..walletTokens.tokenCount
        THEN TokenAccounts(Payer, walletTokens.tokenCount, walletTokens.nonZero)[j].tokenAmount
        ELSE -1

\* C23: every token account close instruction the batch operations build
\* (collected, batched, handed to the signer or broadcast) targets an account
\* the preceding scan read with token amount 0; no token account read with a
\* non-zero amount is in any instruction or in any scan result.
C23_OnlyZeroAmountClosed ==
    /\ \A i \in 1..Len(allInstructions) :
          allInstructions[i].type = "closeToken" => ScannedAmount(allInstructions[i]) = 0
    /\ \A b \in 1..Len(signed) : \A i \in 1..Len(signed[b]) :
          signed[b][i].type = "closeToken" => ScannedAmount(signed[b][i]) = 0
    /\ \A w \in 1..Len(walletDataList) :
          \A i \in 1..Len(walletDataList[w].zeroBalanceTokens) :
             ScannedAmount([account |-> walletDataList[w].zeroBalanceTokens[i].address]) = 0
    /\ \A t \in 1..Len(zSigned) : \A i \in 1..Len(zSigned[t]) : FoundAmount(zSigned[t][i]) = 0
    /\ \A t \in 1..Len(zSent) : \A i \in 1..Len(zSent[t]) : FoundAmount(zSent[t][i]) = 0

\* a wallet with twenty token accounts, one of them holding tokens, was
\* recovered: nineteen closes and the transfer were signed
C23_Witness ==
    /\ rPc = "done" /\ recoveryResult # NoResult
    /\ Len(chain) = 1 /\ chain[1].nonZero /\ chain[1].tokenCount = 20
    /\ Len(signed) = 1 /\ Len(signed[1]) = 20
    /\ RentOf(signed[1]) = 19 * getMinimumBalanceForRentExemption(165)

\* C24: the connected wallet is the fee payer of every transaction of a
\* recovery run and the destination of every transfer and token account close
\* the run collects, batches or hands to the signer; no instruction names
\* another destination.
C24_ConnectedWalletPaysAndReceives ==
    /\ rPc \in {"sign", "send", "confirm"} => feePayer = walletInfo /\ walletInfo # NoWallet
    /\ \A i \in 1..Len(allInstructions) : allInstructions[i].to = walletInfo
    /\ \A b \in 1..Len(batches) : \A i \in 1..Len(batches[b]) : batches[b][i].to = walletInfo
    /\ \A b \in 1..Len(signed) : \A i \in 1..Len(signed[b]) : signed[b][i].to = walletInfo

\* the third transaction of a run is with the signer, the connected wallet its fee payer
C24_Witness ==
    /\ rPc = "send" /\ batchIndex = 3
    /\ feePayer = Payer
    /\ Len(signed) = 3
    /\ SolOf(signed[1]) > 0 /\ RentOf(signed[3]) > 0

\* the instructions of the run have been collected
Collected == runList # <<>> /\ successCount = Len(runList)

\* the transfers collected for the wallet of key k
TransfersOf(k) ==
    {i \in 1..Len(allInstructions) :
        allInstructions[i].type = "transfer" /\ allInstructions[i].account = k}

\* C25: each scanned wallet keeps 5000 lamports: exactly one transfer is
\* collected for a wallet whose scanned balance is greater than 5000, its
\* amount is balance - 5000, and a wallet with 5000 or less has no transfer.
C25_WalletKeepsReserve ==
    Collected =>
        \A w \in 1..Len(runList) :
            LET d == runList[w]
                T == TransfersOf(d.publicKey)
            IN  /\ d.solBalance > 5000 =>
                      /\ Cardinality(T) = 1
                      /\ \A i \in T : allInstructions[i].amount = d.solBalance - 5000
                /\ d.solBalance <= 5000 => T = {}

\* a wallet holding exactly 5000 and a wallet holding 5001 were recovered in one run
C25_Witness ==
    /\ rPc = "done" /\ recoveryResult # NoResult
    /\ Len(runList) = 2
    /\ runList[1].solBalance = 5000 /\ runList[2].solBalance = 5001
    /\ TransfersOf(1) = {} /\ Cardinality(TransfersOf(2)) = 1
    /\ recoveryResult.totalSol = 1

----------------------------------------------------------------------------
\* Claims about the status check and the close operation

\* the errors of handleCloseAccount's own eligibility checks: the 10000
\* lamport pre-check, rentInfo.canClose, the max(rent, 15000) check
EligibilityErrors == {"tooLittle", "cannotClose", "insufficient", "feeShort"}

\* C26: whenever checkAccountStatus reports canClose = TRUE for the account,
\* handleCloseAccount on the same account passes its own eligibility checks
\* and builds the instruction: it ends with none of their errors, and once
\* canCloseAccount has returned the transaction holds the instruction.
C26_StatusAndCloseAgree ==
    accountStatus.canClose =>
        /\ cError \notin EligibilityErrors
        /\ (rentInfo # NoRentInfo) => transaction # <<>>

----------------------------------------------------------------------------
\* Claims about termination

\* C27: every started run ends and releases its busy flag: on every exit path
\* of recoverAllWallets, scanAllWallets, handleCloseAccount and
\* batchCloseZeroBalanceAccounts the isRecovering / isScanning / isProcessing
\* flag is false again in the end, provided every await returns or throws.
C27_BusyFlagsReleased ==
    /\ isRecovering ~> ~isRecovering
    /\ isScanning ~> ~isScanning
    /\ isProcessing ~> ~isProcessing

\* a recovery run whose second batch failed has ended with its flag released
C27_Witness ==
    /\ currentPage = "batch"
    /\ rPc = "done" /\ error = "recoverFailed"
    /\ outcome = <<"confirmed", "failed">>
    /\ ~isRecovering

----------------------------------------------------------------------------
\* Claims about concurrent runs

\* a recoverAllWallets run of the mounted component is between its start and its end
RunInProgress == rPc \in {"payer", "blockhash", "sign", "send", "confirm"}

\* the step starts a recoverAllWallets run
RunBegins ==
    \/ variant = "batched" /\ rPc # "payer" /\ rPc' = "payer"
    \/ variant = "single" /\ rPc # "blockhash" /\ rPc' = "blockhash" /\ batchIndex' = 1

\* while isRecovering is true no run begins, and isRecovering is true from the
\* start of a run to its end
OneRunPerComponent ==
    /\ [](RunInProgress <=> isRecovering)
    /\ [][isRecovering => ~RunBegins]_vars

\* C28: at most one recovery run is in progress at any time: while a run is
\* between its start and its end (isRecovering true) no second run begins, so
\* no two runs sharing the fee payer are in progress together.
C28_OneRunAtATime ==
    /\ OneRunPerComponent
    /\ []~(detachedRun /\ RunInProgress)

\* C29: the scanned wallet list is stable during recovery: while a run is in
\* progress no step replaces or empties walletDataList, and when the run ends
\* the list is the one the run's instructions were built from.
C29_ListStableDuringRecovery ==
    /\ [][isRecovering => UNCHANGED walletDataList]_vars
    /\ [][(isRecovering /\ ~isRecovering') => walletDataList' = runList']_vars

----------------------------------------------------------------------------
\* Claims about the batch close of zero balance token accounts

\* the accounts of the run whose close was confirmed
ZConfirmed == {i \in 1..Len(zOutcome) : zOutcome[i] = "confirmed"}

\* the place in the run's list of the account a broadcast transaction closes
ZPlace(tx) == CHOOSE i \in 1..Len(zList) : zList[i].address = tx[1].account

\* every listed account gets one turn, in list order: the turns that have
\* ended are those of the first accounts of the list, the account in its turn
\* is the next one, and the broadcast closes follow the list order without
\* repetition
OneTurnEachInOrder ==
    /\ zPc \in {"blockhash", "sign", "send", "confirm"} =>
          /\ zIndex \in 1..Len(zList)
          /\ Len(zOutcome) = zIndex - 1
    /\ zPc = "done" => Len(zOutcome) = Len(zList)
    /\ \A t \in 1..Len(zSent) :
          /\ \E i \in 1..Len(zList) : zList[i].address = zSent[t][1].account
          /\ ZPlace(zSent[t]) <= Len(zOutcome) + 1
          /\ t > 1 => ZPlace(zSent[t - 1]) < ZPlace(zSent[t])
    /\ ZConfirmed \subseteq {ZPlace(zSent[t]) : t \in 1..Len(zSent)}

\* the counts of the run and of the displayed result
CountsWithinTotal ==
    /\ zSuccessCount = Cardinality(ZConfirmed)
    /\ zSuccessCount + zFailedCount = Len(zOutcome)
    /\ batchResult # NoBatchResult =>
          /\ batchResult.success + batchResult.failed <= batchResult.total
          /\ batchResult.total = Len(zList)

\* the step on which the loop of a run ends
LoopEnds == zPc # "done" /\ zPc' = "done"

\* C30: every listed token account is attempted exactly once, in list order,
\* whatever the outcome of earlier accounts; at every progress update
\* success + failed <= total, and when the loop ends success + failed = total
\* with success the number of accounts whose close was confirmed.
C30_EveryAccountAttemptedOnce ==
    /\ [](OneTurnEachInOrder /\ CountsWithinTotal)
    /\ [][LoopEnds =>
            /\ batchResult'.success + batchResult'.failed = batchResult'.total
            /\ batchResult'.total = Len(zList')
            /\ batchResult'.success = Cardinality(ZConfirmed')]_vars

\* the first account's close failed, the second was still attempted and confirmed
C30_Witness ==
    /\ zPc = "done" /\ Len(zList) = 2
    /\ zOutcome = <<"failed", "confirmed">>
    /\ batchResult = [success |-> 1, failed |-> 1, total |-> 2]
    /\ Len(zSent) = 1 /\ ZPlace(zSent[1]) = 2

====
